---- MODULE Spec2Model ----
(***************************************************************************)
(* The reactive Store (state.js), the persistence gateway (storage.js)     *)
(* and the startup sequence of app.js of the personal-finance tracker.     *)
(*                                                                         *)
(* JavaScript values are modelled as follows.  A string is a TLA+ string,  *)
(* an array a sequence, an object a function from its own property names,  *)
(* so that `'k' in o` is k \in DOMAIN o and a missing property reads as    *)
(* undefined.  The amount of a transaction, the one property the Store     *)
(* coerces with Number(), is a tagged value: Num(n), Str(s), NaN or Null.  *)
(* A JSON text is modelled by the value it denotes, [text |-> v].          *)
(***************************************************************************)
EXTENDS Integers, Sequences, FiniteSets, TLC

VARIABLES
    state,              \* state.js: let state = {...}
    defaultCategories,  \* state.js: the module-level array defaultCategories
    aliased,            \* state.categories === defaultCategories (one array object)
    subscribers,        \* state.js: let subscribers = []
    storage,            \* localStorage: what is stored under STORAGE_KEY
    nextId,             \* how many ids Utils.generateId has handed out, plus one
    pc,                 \* app.js:273-291: the next step of the startup, or "run"
    atLoad,             \* what the key held when the page was loaded
    last,               \* the last API call: its name, argument and return value
    calls,              \* the callbacks that call invoked, with the state each received
    shared,             \* the fields of state whose array is the one the caller's payload holds
    got,                \* the getter a caller holds the returned value of, and what that value shares
    quotaExceeded       \* localStorage.setItem throws: the quota of the origin is used up

vars == <<state, defaultCategories, aliased, subscribers, storage, nextId, pc, atLoad, last, calls,
          shared, got, quotaExceeded>>

---------------------------------------------------------------------------
(* Bounds of the model *)

MaxSubs == 2    \* registered callbacks
MaxFanOut == 3  \* registered callbacks of a fan-out
MaxCharted == 9    \* transactions the spending chart is drawn from
MaxRegistered == 6  \* registered callbacks over the navigations
MaxGen == 1     \* ids Utils.generateId hands out in one run
MaxAdds == 2    \* ids Utils.generateId hands out in one run of the ledger
MaxPushed == 3  \* length up to which a client pushes to an array it holds

---------------------------------------------------------------------------
(* Values *)

Num(n) == [t |-> "number", v |-> n]
Str(s) == [t |-> "string", v |-> s]
NaN == [t |-> "NaN"]
Null == [t |-> "null"]
Arr(a) == [t |-> "array", v |-> a]

Range(seq) == {seq[i] : i \in 1..Len(seq)}

Has(o, k) == k \in DOMAIN o

\* An object of the model keeps under ofOtherType the names of its properties
\* whose value is neither an array nor a string (a number, null, an object);
\* the Store only ever tests the type of such a value.  A parsed JSON value
\* that is not an object is one of the tagged values above or Arr(a), and has
\* none of the properties the Store reads.
OtherType(o, k) == Has(o, "ofOtherType") /\ k \in o.ofOtherType

\* Array.isArray(o[k]), for the properties the model keeps arrays in
IsArray(o, k) == Has(o, k) /\ ~OtherType(o, k) /\ k \in {"transactions", "categories"}

\* typeof o[k] === 'string', for the property the model keeps a string in
IsString(o, k) == Has(o, k) /\ ~OtherType(o, k) /\ k = "currency"

\* { ...a, ...b }
Spread(a, b) == [k \in DOMAIN a \cup DOMAIN b |-> IF k \in DOMAIN b THEN b[k] ELSE a[k]]

\* String.prototype.trim on the names of the model: the padded names lose
\* their padding, every other name of the model has none.
Trim(s) ==
    CASE s = " Pets " -> "Pets"
      [] s = " Rent " -> "Rent"
      [] s = "   " -> ""
      [] OTHER -> s

\* String.prototype.toUpperCase on the currency codes of the model.
ToUpperCase(s) ==
    CASE s = "usd" -> "USD"
      [] s = "us" -> "US"
      [] s = "Eur" -> "EUR"
      [] OTHER -> s

\* Number(x) for the amounts of the model; a missing amount is undefined.
StringToNumber(s) ==
    CASE s = "40" -> Num(40)
      [] s = "" -> Num(0)
      [] OTHER -> NaN

Number(o, k) ==
    IF ~Has(o, k) THEN NaN
    ELSE CASE o[k].t = "number" -> o[k]
           [] o[k].t = "string" -> StringToNumber(o[k].v)
           [] o[k].t = "null" -> Num(0)
           [] OTHER -> NaN

\* x is falsy, for an amount
Falsy(x) == x = NaN \/ x = Null \/ x = Num(0) \/ x = Str("")

---------------------------------------------------------------------------
(* JSON *)

\* What JSON.stringify keeps of a transaction: NaN is written as null.
JsonTx(t) == [k \in DOMAIN t |-> IF k = "amount" /\ t[k] = NaN THEN Null ELSE t[k]]

JsonTxs(txs) == [i \in 1..Len(txs) |-> JsonTx(txs[i])]

\* What JSON.stringify keeps of an object of the model: its transactions are
\* converted, every other property of the model is a string, an array of
\* strings or null and is written as it is.
Jsonify(o) == [k \in DOMAIN o |-> IF k = "transactions" THEN JsonTxs(o[k]) ELSE o[k]]

JsonStringify(o) == [text |-> Jsonify(o)]

JsonParse(doc) == doc.text

\* utils.js deepClone
deepClone(o) == JsonParse(JsonStringify(o))

---------------------------------------------------------------------------
(* state.js: the Store *)

\* {} : an object with no property
EmptyObject == [k \in {} |-> Null]

\* state.js:9-21, the state object the module is loaded with
InitialState ==
    [currency |-> "NGN",
     transactions |-> <<>>,
     categories |-> <<>>,
     currentView |-> "dashboard",
     modalOpen |-> Null,
     editingTransactionId |-> Null]

\* state.js:24-44, the array literal defaultCategories is initialised with
DefaultCategoryNames ==
    <<"Salary", "Freelance", "Groceries", "Dining Out", "Transport", "Fuel",
      "Rent", "Utilities", "Internet", "Phone", "Entertainment", "Shopping",
      "Healthcare", "Education", "Savings", "Investment", "Transfer",
      "Other Income", "Other Expense">>

\* state.js:194
Views == {"dashboard", "transactions", "categories", "settings"}

\* The callbacks the repository registers: app.js:274 (dashboard summary and
\* modal), app.js:282 (Storage.persist) and the page managers' re-renderers.
\* All but Storage.persist only read the Store through its getters.
Callbacks == {"updateView", "persist"}

\* The callbacks of a client of the Store: one that throws whenever it is
\* called, and one that keeps the object it is called with
ClientCallbacks == {"throws", "keeps"}

Throws(cb) == cb = "throws"

\* The caller of the getters holds nothing yet
Nothing == [from |-> "nothing", shares |-> {}]

\* storage.js:34-48 save(state): what setItem leaves under STORAGE_KEY
save(st) ==
    JsonStringify([currency |-> st.currency,
                   transactions |-> st.transactions,
                   categories |-> st.categories])

\* The callback whose unsubscribe function the callback "unsubscriber" calls
Unsubscribed == "keeps"

\* As the filter of line 227 would act with === in place of !==
OnlyCallback(subs, callback) ==
    LET Keep(cb) == cb = callback IN SelectSeq(subs, Keep)

\* state.js:227 subscribers.filter(cb => cb !== callback): a new array
Without(subs, callback) ==
    LET Keep(cb) == cb # callback IN SelectSeq(subs, Keep)

\* As setItem would act if it never failed
WriteDespiteQuota(old, new) == new

\* storage.js:43 localStorage.setItem inside the try of save: what the key
\* holds afterwards; the catch of line 44 only logs
Write(old, new) == IF quotaExceeded THEN old ELSE new

\* state.js:89-91 getState()
getState(s) == deepClone(s)

\* As getTransactions would return without deepClone: the Store's own array
getTransactionsNoClone(s) == [value |-> s.transactions, shares |-> {"transactions"}]

\* state.js:96-98 getTransactions(): the value returned, and the fields of
\* state it shares structure with; what JSON.parse builds is new.  The JSON
\* text of state.transactions is that of the property in the text of state.
getTransactions(s) == [value |-> deepClone(s).transactions, shares |-> {}]

\* state.js:100-102 getCategories()
getCategories(s) == [value |-> deepClone(s).categories, shares |-> {}]

\* One callback invoked with the state object s; acc is the storage and the
\* record of invocations so far.  Storage.persist (storage.js:68-70) ignores
\* its argument and saves State.getState().
Invoke(cb, s, acc) ==
    [storage |-> IF cb = "persist" THEN Write(acc.storage, save(getState(s))) ELSE acc.storage,
     calls |-> Append(acc.calls, [cb |-> cb, seen |-> s]),
     subs |-> IF cb = "unsubscriber" THEN Without(acc.subs, Unsubscribed) ELSE acc.subs]

RECURSIVE notifyFrom(_, _, _, _)
notifyFrom(i, subs, s, acc) ==
    IF i > Len(subs) THEN acc
    ELSE notifyFrom(i + 1, subs, s, Invoke(subs[i], s, acc))

RECURSIVE notifyDownFrom(_, _, _, _)
notifyDownFrom(i, subs, s, acc) ==
    IF i < 1 THEN acc
    ELSE notifyDownFrom(i - 1, subs, s, Invoke(subs[i], s, acc))

\* As notify() would run if it walked the array from its end
notifyReversed(subs, s, stor) ==
    notifyDownFrom(Len(subs), subs, s, [storage |-> stor, calls |-> <<>>, subs |-> subs])

RECURSIVE notifyUntilThrowFrom(_, _, _, _)
notifyUntilThrowFrom(i, subs, s, acc) ==
    IF i > Len(subs) THEN acc
    ELSE IF Throws(subs[i]) THEN Invoke(subs[i], s, acc)
    ELSE notifyUntilThrowFrom(i + 1, subs, s, Invoke(subs[i], s, acc))

\* As notify() would run with its try around the whole forEach
notifyUntilThrow(subs, s, stor) ==
    notifyUntilThrowFrom(1, subs, s, [storage |-> stor, calls |-> <<>>, subs |-> subs])

\* state.js:50-58 notify(): subscribers.forEach(callback => callback(state)),
\* each call in a try of its own whose catch only logs
notify(subs, s, stor) == notifyFrom(1, subs, s, [storage |-> stor, calls |-> <<>>, subs |-> subs])

\* state.js:68-80, the state init(loadedData) leaves
InitCategories(ld) ==
    IF IsArray(ld, "categories") THEN ld.categories ELSE <<>>

InitState(ld, dc) ==
    [currency |-> IF IsString(ld, "currency") THEN ld.currency ELSE "NGN",
     transactions |-> IF IsArray(ld, "transactions") THEN ld.transactions ELSE <<>>,
     categories |-> IF Len(InitCategories(ld)) > 0 THEN InitCategories(ld) ELSE dc,
     currentView |-> "dashboard",
     modalOpen |-> Null,
     editingTransactionId |-> Null]

\* state.js:72: state.categories is the array defaultCategories itself, not a copy
InitAliased(ld) == Len(InitCategories(ld)) = 0

\* state.js:68-72: the arrays of loadedData that init assigns to state as
\* they are, without copying
InitShared(ld) ==
    {f \in {"transactions"} : IsArray(ld, f)}
        \cup {f \in {"categories"} : Len(InitCategories(ld)) > 0}

\* utils.js:76-78 generateId(): a value it has not returned before
generateId == nextId

\* utils.js:57-59 getTodayISO()
getTodayISO == "2026-11-01"

\* state.js:124-129
NewTransaction(t, id) ==
    Spread(Spread([id |-> id], t),
           [amount |-> Number(t, "amount"),
            date |-> IF Has(t, "date") /\ t.date # "" THEN t.date ELSE getTodayISO])

\* state.js:140 findIndex(t => t.id === id), 0 for -1
FindIndex(txs, id) ==
    IF \E i \in 1..Len(txs) : Has(txs[i], "id") /\ txs[i].id = id
    THEN CHOOSE i \in 1..Len(txs) :
            /\ Has(txs[i], "id") /\ txs[i].id = id
            /\ \A j \in 1..(i - 1) : ~(Has(txs[j], "id") /\ txs[j].id = id)
    ELSE 0

\* state.js:142-146
UpdatedTransaction(old, updates) ==
    Spread(Spread(old, updates),
           [amount |-> IF Has(updates, "amount") /\ ~Falsy(updates.amount)
                       THEN Number(updates, "amount")
                       ELSE Number(old, "amount")])

\* state.js:156 filter(t => t.id !== id)
WithoutId(txs, id) ==
    LET Keep(t) == ~(Has(t, "id") /\ t.id = id) IN SelectSeq(txs, Keep)

\* As indexOf(trimmed) > 0 would decide it: the first name is missed
IsDefaultFromSecond(dc, trimmed) == \E i \in 2..Len(dc) : dc[i] = trimmed

\* state.js:179 defaultCategories.includes(trimmed)
IsDefault(dc, trimmed) == trimmed \in Range(dc)

\* state.js:181 state.transactions.some(t => t.category === trimmed)
IsUsed(txs, trimmed) ==
    \E i \in 1..Len(txs) : Has(txs[i], "category") /\ txs[i].category = trimmed

\* state.js:184 filter(c => c !== trimmed)
WithoutName(cats, trimmed) ==
    LET Keep(c) == c # trimmed IN SelectSeq(cats, Keep)

---------------------------------------------------------------------------
(* storage.js: the persistence gateway *)

\* localStorage.getItem returns null: nothing is stored under the key
NoItem == [item |-> "none"]

\* The key holds the empty string
EmptyText == [item |-> "empty"]

\* The key holds a text JSON.parse throws a SyntaxError on
NotJson == [item |-> "not JSON"]

\* storage.js:15-27 load(): {} for !raw and for what JSON.parse throws
load(stor) ==
    CASE stor = NoItem -> EmptyObject
      [] stor = EmptyText -> EmptyObject
      [] stor = NotJson -> EmptyObject
      [] OTHER -> JsonParse(stor)

\* As importData would validate if it dropped the imported currency
ValidatedDefaultCurrency(imported) ==
    [currency |-> "NGN",
     transactions |-> IF IsArray(imported, "transactions") THEN imported.transactions ELSE <<>>,
     categories |-> IF IsArray(imported, "categories") THEN imported.categories ELSE <<>>]

\* storage.js:98-102, the object importData passes to State.init
Validated(imported) ==
    [currency |-> IF IsString(imported, "currency") THEN imported.currency ELSE "NGN",
     transactions |-> IF IsArray(imported, "transactions") THEN imported.transactions ELSE <<>>,
     categories |-> IF IsArray(imported, "categories") THEN imported.categories ELSE <<>>]

\* storage.js:82 new Date().toISOString()
ExportDate == "2026-11-01T00:00:00.000Z"

\* storage.js:76-86 exportData()
exportData(s) ==
    JsonStringify([currency |-> getState(s).currency,
                   transactions |-> getState(s).transactions,
                   categories |-> getState(s).categories,
                   exportDate |-> ExportDate,
                   appVersion |-> "1.0.0"])

---------------------------------------------------------------------------
(* Inputs *)

\* A transaction an earlier session stored; its id is none this run generates
EarlierTx == [id |-> 0, amount |-> Num(100), category |-> "Pets", date |-> "2025-01-05"]

\* The state an earlier session ended in
EarlierState ==
    [currency |-> "USD",
     transactions |-> <<EarlierTx>>,
     categories |-> Append(DefaultCategoryNames, "Pets")]

\* What the key can hold when the page is loaded
StoredAtLoad == {NoItem, save(EarlierState)}

\* Payloads of State.init and Storage.importData
Payloads ==
    {EmptyObject,
     [categories |-> <<"Custom">>],
     [currency |-> "USD", transactions |-> <<EarlierTx>>, categories |-> <<>>]}

CategoryInputs == {"Salary", " Pets ", "Custom", "   "}

\* removeCategory is also asked for a padded built-in name
RemoveInputs == CategoryInputs \cup {" Rent "}

TransactionInputs ==
    {[amount |-> Str("40"), type |-> "expense", category |-> "Pets"],
     [amount |-> Str("abc"), type |-> "income", category |-> "Salary", date |-> "2025-01-05"]}

UpdateInputs == {[amount |-> Num(0), category |-> "Salary"]}

\* The ids of the transactions held, and with them one no transaction has
IdsHeld == {state.transactions[i].id : i \in 1..Len(state.transactions)}

IdInputs == IdsHeld \cup {MaxGen + 1}

CurrencyInputs == {Str("usd"), Str("us")}

ViewInputs == {"transactions", "reports"}

\* The narrower inputs of the Store on its own
StorePayloads == {EmptyObject}

StoreTransactionInputs == {[amount |-> Str("abc"), type |-> "expense", category |-> "Custom"]}

StoreCategoryInputs == {"Salary", " Pets "}

\* setCurrency is also called with a number and with an array of length 3
StoreCurrencyInputs == CurrencyInputs \cup {Num(840), Arr(<<"U", "S", "D">>)}

---------------------------------------------------------------------------
(* What a call leaves behind *)

Called(op, arg, ret) ==
    /\ last' = [op |-> op, arg |-> arg, ret |-> ret]
    /\ atLoad' = IF pc = "run" THEN NoItem ELSE atLoad
    /\ got' = got
    /\ quotaExceeded' = quotaExceeded

\* As an operation would behave that called notify() before its assignment
NotifiedBeforeChange(s) ==
    /\ state' = s
    /\ storage' = notify(subscribers, state, storage).storage
    /\ calls' = notify(subscribers, state, storage).calls
    /\ subscribers' = notify(subscribers, state, storage).subs

\* The call changed the Store to s and called notify()
Notified(s) ==
    /\ state' = s
    /\ storage' = notify(subscribers, s, storage).storage
    /\ calls' = notify(subscribers, s, storage).calls
    /\ subscribers' = notify(subscribers, s, storage).subs

\* As an early return would behave that still called notify()
IgnoredButNotified ==
    /\ storage' = notify(subscribers, state, storage).storage
    /\ calls' = notify(subscribers, state, storage).calls
    /\ subscribers' = notify(subscribers, state, storage).subs
    /\ UNCHANGED <<state, defaultCategories, aliased, nextId, shared>>

\* The call returned early: nothing changed, nobody was called
Ignored ==
    /\ calls' = <<>>
    /\ UNCHANGED <<state, defaultCategories, aliased, subscribers, storage, nextId, shared>>

-------------------------------------------------------------------------------------------------------------------------------------------------
(* Operations of the Store *)

\* state.js:66-83
init(loadedData) ==
    /\ pc = "run"
    /\ Notified(InitState(loadedData, defaultCategories))
    /\ aliased' = InitAliased(loadedData)
    /\ shared' = InitShared(loadedData)
    /\ Called("init", loadedData, "undefined")
    /\ UNCHANGED <<defaultCategories, nextId, pc>>

\* state.js:112-117
setCurrency(currencyCode) ==
    /\ pc = "run"
    /\ Called("setCurrency", currencyCode, "undefined")
    /\ IF currencyCode.t = "string" /\ Len(currencyCode.v) >= 3
       THEN /\ Notified([state EXCEPT !.currency = ToUpperCase(currencyCode.v)])
            /\ UNCHANGED <<defaultCategories, aliased, nextId, shared>>
       ELSE Ignored
    /\ UNCHANGED pc

\* state.js:123-132
addTransaction(transaction) ==
    /\ pc = "run"
    /\ Notified([state EXCEPT
            !.transactions = Append(@, NewTransaction(transaction, generateId))])
    /\ nextId' = nextId + 1
    /\ Called("addTransaction", transaction, "undefined")
    /\ UNCHANGED <<defaultCategories, aliased, pc, shared>>

\* state.js:139-149
updateTransaction(id, updates) ==
    /\ pc = "run"
    /\ Called("updateTransaction", <<id, updates>>, "undefined")
    /\ LET index == FindIndex(state.transactions, id) IN
       IF index # 0
       THEN /\ Notified([state EXCEPT !.transactions[index] =
                    UpdatedTransaction(@, updates)])
            /\ UNCHANGED <<defaultCategories, aliased, nextId, shared>>
       ELSE Ignored
    /\ UNCHANGED pc

\* As deleteTransaction would behave if it returned early for an id it
\* does not find
deleteTransactionIfFound(id) ==
    /\ pc = "run"
    /\ Called("deleteTransaction", id, "undefined")
    /\ IF FindIndex(state.transactions, id) # 0
       THEN /\ Notified([state EXCEPT !.transactions = WithoutId(@, id)])
            /\ shared' = shared \ {"transactions"}
            /\ UNCHANGED <<defaultCategories, aliased, nextId>>
       ELSE Ignored
    /\ UNCHANGED pc

\* state.js:155-158; filter makes a new array
deleteTransaction(id) ==
    /\ pc = "run"
    /\ Notified([state EXCEPT !.transactions = WithoutId(@, id)])
    /\ shared' = shared \ {"transactions"}
    /\ Called("deleteTransaction", id, "undefined")
    /\ UNCHANGED <<defaultCategories, aliased, nextId, pc>>

\* state.js:164-170; push changes the array in place, and while that array
\* is defaultCategories itself the name is added to defaultCategories
addCategory(categoryName) ==
    /\ pc = "run"
    /\ Called("addCategory", categoryName, "undefined")
    /\ LET trimmed == Trim(categoryName) IN
       IF trimmed # "" /\ trimmed \notin Range(state.categories)
       THEN /\ Notified([state EXCEPT !.categories = Append(@, trimmed)])
            /\ defaultCategories' =
                    IF aliased THEN Append(defaultCategories, trimmed)
                    ELSE defaultCategories
            /\ UNCHANGED <<aliased, nextId, shared>>
       ELSE Ignored
    /\ UNCHANGED pc

\* state.js:177-187
removeCategory(categoryName) ==
    /\ pc = "run"
    /\ LET trimmed == Trim(categoryName) IN
       IF IsDefault(defaultCategories, trimmed) \/ IsUsed(state.transactions, trimmed)
       THEN /\ Called("removeCategory", categoryName, "false")
            /\ Ignored
       ELSE /\ Called("removeCategory", categoryName, "true")
            /\ Notified([state EXCEPT !.categories = WithoutName(@, trimmed)])
            /\ aliased' = FALSE
            /\ shared' = shared \ {"categories"}
            /\ UNCHANGED <<defaultCategories, nextId>>
    /\ UNCHANGED pc

\* state.js:193-198
setView(view) ==
    /\ pc = "run"
    /\ Called("setView", view, "undefined")
    /\ IF view \in Views
       THEN /\ Notified([state EXCEPT !.currentView = view])
            /\ UNCHANGED <<defaultCategories, aliased, nextId, shared>>
       ELSE Ignored
    /\ UNCHANGED pc

\* state.js:203-207
openModal(type, editingId) ==
    /\ pc = "run"
    /\ Notified([state EXCEPT !.modalOpen = Str(type),
                              !.editingTransactionId = Num(editingId)])
    /\ Called("openModal", <<type, editingId>>, "undefined")
    /\ UNCHANGED <<defaultCategories, aliased, nextId, pc, shared>>

\* state.js:209-213
closeModal ==
    /\ pc = "run"
    /\ Notified([state EXCEPT !.modalOpen = Null, !.editingTransactionId = Null])
    /\ Called("closeModal", Null, "undefined")
    /\ UNCHANGED <<defaultCategories, aliased, nextId, pc, shared>>

\* state.js:222 subscribers.push(callback), before the callback is called
Pushed(callback) ==
    [storage |-> storage, calls |-> <<>>, subs |-> Append(subscribers, callback)]

\* As subscribe would behave without the immediate call of line 224
SubscribeCallNoReplay(callback) ==
    /\ subscribers' = Append(subscribers, callback)
    /\ calls' = <<>>
    /\ last' = [op |-> "subscribe", arg |-> callback, ret |-> "unsubscribe"]
    /\ atLoad' = IF pc = "run" THEN NoItem ELSE atLoad
    /\ UNCHANGED <<state, defaultCategories, aliased, storage, nextId, shared, got, quotaExceeded>>

\* state.js:220-225 for a function callback: it is appended and called at
\* once, outside any try, so what it throws leaves subscribe in place of the
\* unsubscribe function
SubscribeCall(callback) ==
    /\ subscribers' = Invoke(callback, state, Pushed(callback)).subs
    /\ storage' = Invoke(callback, state, Pushed(callback)).storage
    /\ calls' = Invoke(callback, state, Pushed(callback)).calls
    /\ Called("subscribe", callback, IF Throws(callback) THEN "throws" ELSE "unsubscribe")
    /\ UNCHANGED <<state, defaultCategories, aliased, nextId, shared>>

subscribe(callback) ==
    /\ pc = "run"
    /\ SubscribeCall(callback)
    /\ UNCHANGED pc

\* state.js:226-228: the function subscribe(callback) returned
unsubscribe(callback) ==
    /\ pc = "run"
    /\ subscribers' = Without(subscribers, callback)
    /\ calls' = <<>>
    /\ Called("unsubscribe", callback, "undefined")
    /\ UNCHANGED <<state, defaultCategories, aliased, storage, nextId, pc, shared>>

\* A getter returned: its caller holds the value, no callback was called
Got(from, returned) ==
    /\ got' = [from |-> from, shares |-> returned.shares]
    /\ last' = [op |-> from, arg |-> Null, ret |-> "value"]
    /\ atLoad' = IF pc = "run" THEN NoItem ELSE atLoad
    /\ calls' = <<>>
    /\ UNCHANGED <<state, defaultCategories, aliased, subscribers, storage, nextId, pc, shared, quotaExceeded>>

\* state.js:89-91
getStateCall ==
    /\ pc = "run"
    /\ Got("getState", [value |-> getState(state), shares |-> {}])

\* state.js:96-98
getTransactionsCall ==
    /\ pc = "run"
    /\ Got("getTransactions", getTransactions(state))

\* state.js:100-102
getCategoriesCall ==
    /\ pc = "run"
    /\ Got("getCategories", getCategories(state))

---------------------------------------------------------------------------
(* What a client can do to the objects it holds *)

\* The transaction a client pushes into an array of transactions it holds
ClientTx == [id |-> 0, amount |-> Num(1), category |-> "Hacked", date |-> "2025-01-05"]

\* push on an array the client holds, an assignment to a string it holds
Changed(f, x) ==
    CASE f = "transactions" -> Append(x, ClientTx)
      [] f = "categories" -> Append(x, "Hacked")
      [] f = "currency" -> "XXX"

\* The state after the client changed, in an object it holds, the fields fs
\* that are the Store's own
ChangedState(s, fs) == [k \in DOMAIN s |-> IF k \in fs THEN Changed(k, s[k]) ELSE s[k]]

\* The caller of a getter changes the value it was returned: it pushes to
\* the arrays in it and assigns to its fields
mutateReturned ==
    /\ pc = "run"
    /\ got.from \in {"getState", "getTransactions", "getCategories"}
    /\ got' = [from |-> "changed", shares |-> got.shares]
    /\ state' = ChangedState(state, got.shares)
    /\ last' = [op |-> "mutateReturned", arg |-> got.from, ret |-> "undefined"]
    /\ atLoad' = NoItem
    /\ calls' = <<>>
    /\ UNCHANGED <<defaultCategories, aliased, subscribers, storage, nextId, pc, shared, quotaExceeded>>

\* The caller of init or importData pushes to an array of the payload it
\* passed; state.js:68-72 made that array the Store's
mutatePayload(f) ==
    /\ pc = "run"
    /\ f \in shared
    /\ Len(state[f]) < MaxPushed
    /\ state' = ChangedState(state, {f})
    /\ last' = [op |-> "mutatePayload", arg |-> f, ret |-> "undefined"]
    /\ atLoad' = NoItem
    /\ calls' = <<>>
    /\ UNCHANGED <<defaultCategories, aliased, subscribers, storage, nextId, pc, shared, got, quotaExceeded>>

\* A registered callback that kept the object it was called with (state.js:53
\* and 224 pass state itself) assigns to its currency
mutateReceived ==
    /\ pc = "run"
    /\ "keeps" \in Range(subscribers)
    /\ state.currency # "XXX"
    /\ state' = ChangedState(state, {"currency"})
    /\ last' = [op |-> "mutateReceived", arg |-> "currency", ret |-> "undefined"]
    /\ atLoad' = NoItem
    /\ calls' = <<>>
    /\ UNCHANGED <<defaultCategories, aliased, subscribers, storage, nextId, pc, shared, got, quotaExceeded>>

---------------------------------------------------------------------------
(* Operations of the persistence gateway *)

\* storage.js:57-62: load(), State.init(loadedData), save(State.getState()).
\* The arrays of loadedData are held by nobody else.  When the key holds the
\* JSON text null, load() returns null and line 68 of state.js throws a
\* TypeError reading loadedData.transactions, before anything is assigned;
\* neither init has a try around it.
StorageInit ==
    LET loadedData == load(storage)
        s == InitState(loadedData, defaultCategories)
    IN  IF loadedData = Null
        THEN /\ Called("Storage.init", loadedData, "throws")
             /\ Ignored
        ELSE /\ state' = s
             /\ aliased' = InitAliased(loadedData)
             /\ shared' = {}
             /\ calls' = notify(subscribers, s, storage).calls
             /\ subscribers' = notify(subscribers, s, storage).subs
             /\ storage' = Write(notify(subscribers, s, storage).storage, save(getState(s)))
             /\ Called("Storage.init", loadedData, "undefined")
             /\ UNCHANGED <<defaultCategories, nextId>>

\* As the test of line 96 would decide without its comparison with null
IsObjectByTypeof(x) == ~Has(x, "t") \/ x.t \in {"array", "null"}

\* storage.js:96 typeof importedData === 'object' && importedData !== null:
\* an object of the model or an array, none of the other tagged values
IsObject(x) == ~Has(x, "t") \/ x.t = "array"

\* storage.js:94-111: false for what is not an object, else State.init of
\* the validated fields, save and true
ImportCall(op, importedData) ==
    LET validated == Validated(importedData)
        s == InitState(validated, defaultCategories)
    IN  /\ pc = "run"
        /\ IF ~IsObject(importedData)
           THEN /\ Called(op, importedData, "false")
                /\ Ignored
           ELSE /\ state' = s
                /\ aliased' = InitAliased(validated)
                /\ shared' = InitShared(importedData)
                /\ calls' = notify(subscribers, s, storage).calls
                /\ subscribers' = notify(subscribers, s, storage).subs
                /\ storage' = Write(notify(subscribers, s, storage).storage, save(getState(s)))
                /\ Called(op, importedData, "true")
                /\ UNCHANGED <<defaultCategories, nextId>>
        /\ UNCHANGED pc

importData(importedData) == ImportCall("importData", importedData)

\* app.js:151-183: the file exportData() produced is parsed and imported
importExported == ImportCall("importData of exportData", JsonParse(exportData(state)))

\* storage.js:57-62, called once the page runs
storageInit ==
    /\ pc = "run"
    /\ StorageInit
    /\ UNCHANGED pc

\* storage.js:116-119: removeItem, then State.init()
clearAll ==
    LET s == InitState(EmptyObject, defaultCategories) IN
        /\ pc = "run"
        /\ state' = s
        /\ aliased' = InitAliased(EmptyObject)
        /\ shared' = {}
        /\ storage' = notify(subscribers, s, NoItem).storage
        /\ calls' = notify(subscribers, s, NoItem).calls
        /\ subscribers' = notify(subscribers, s, NoItem).subs
        /\ Called("clearAll", EmptyObject, "undefined")
        /\ UNCHANGED <<defaultCategories, nextId, pc>>

---------------------------------------------------------------------------
(* The startup of app.js *)

\* app.js:274-279
subscribeUpdateView ==
    /\ pc = "subscribe updateView"
    /\ SubscribeCall("updateView")
    /\ pc' = "subscribe persist"

\* app.js:282
subscribePersist ==
    /\ pc = "subscribe persist"
    /\ SubscribeCall("persist")
    /\ pc' = "initApp"

\* app.js:285-291
initApp ==
    /\ pc = "initApp"
    /\ StorageInit
    /\ pc' = "run"

---------------------------------------------------------------------------
(* The application: the page is loaded, both modules have run their        *)
(* initialisers and the key holds what an earlier session left; app.js     *)
(* runs its startup and then serves the user's requests on the data.       *)

Init ==
    /\ state = InitialState
    /\ defaultCategories = DefaultCategoryNames
    /\ aliased = FALSE
    /\ subscribers = <<>>
    /\ storage \in StoredAtLoad
    /\ nextId = 1
    /\ pc = "subscribe updateView"
    /\ atLoad = storage
    /\ last = [op |-> "load", arg |-> Null, ret |-> "undefined"]
    /\ calls = <<>>
    /\ shared = {}
    /\ got = Nothing
    /\ quotaExceeded = FALSE

Next ==
    \/ subscribeUpdateView
    \/ subscribePersist
    \/ initApp
    \/ \E loadedData \in Payloads : init(loadedData)
    \/ \E code \in CurrencyInputs : setCurrency(code)
    \/ \E t \in TransactionInputs : nextId <= MaxGen /\ addTransaction(t)
    \/ \E id \in IdInputs, updates \in UpdateInputs : updateTransaction(id, updates)
    \/ \E id \in IdInputs : deleteTransaction(id)
    \/ \E name \in CategoryInputs : addCategory(name)
    \/ \E name \in RemoveInputs : removeCategory(name)
    \/ \E importedData \in Payloads : importData(importedData)
    \/ importExported
    \/ clearAll

Spec == Init /\ [][Next]_vars

---------------------------------------------------------------------------
(* The Store on its own: state.js has been loaded, nothing is registered,  *)
(* and a client calls the operations of the Store in any order.            *)

InitStore ==
    /\ state = InitialState
    /\ defaultCategories = DefaultCategoryNames
    /\ aliased = FALSE
    /\ subscribers = <<>>
    /\ storage = NoItem
    /\ nextId = 1
    /\ pc = "run"
    /\ atLoad = NoItem
    /\ last = [op |-> "load", arg |-> Null, ret |-> "undefined"]
    /\ calls = <<>>
    /\ shared = {}
    /\ got = Nothing
    /\ quotaExceeded = FALSE

NextStore ==
    \/ \E loadedData \in StorePayloads : init(loadedData)
    \/ \E code \in StoreCurrencyInputs : setCurrency(code)
    \/ \E t \in StoreTransactionInputs : nextId <= MaxGen /\ addTransaction(t)
    \/ \E id \in IdInputs, updates \in UpdateInputs : updateTransaction(id, updates)
    \/ \E id \in IdInputs : deleteTransaction(id)
    \/ \E name \in StoreCategoryInputs : addCategory(name)
    \/ \E name \in StoreCategoryInputs : removeCategory(name)
    \/ \E view \in ViewInputs : setView(view)
    \/ \E id \in IdsHeld : openModal("editTransaction", id)
    \/ closeModal
    \/ \E callback \in Callbacks : Len(subscribers) < MaxSubs /\ subscribe(callback)

SpecStore == InitStore /\ [][NextStore]_vars

---------------------------------------------------------------------------
(* A client of the Store: state.js has been loaded; the client registers    *)
(* callbacks of its own, passes payloads it goes on holding, reads through  *)
(* the getters and changes the objects it holds.                            *)

ClientPayloads ==
    {EmptyObject,
     [currency |-> "us", transactions |-> <<EarlierTx>>, categories |-> <<"Custom", "Custom">>]}

NextClient ==
    \/ \E loadedData \in ClientPayloads : init(loadedData)
    \/ \E importedData \in ClientPayloads : importData(importedData)
    \/ \E code \in CurrencyInputs : setCurrency(code)
    \/ \E name \in StoreCategoryInputs : addCategory(name)
    \/ \E callback \in ClientCallbacks : Len(subscribers) < MaxSubs /\ subscribe(callback)
    \/ getStateCall
    \/ getTransactionsCall
    \/ getCategoriesCall
    \/ mutateReturned
    \/ \E f \in {"transactions", "categories"} : mutatePayload(f)
    \/ mutateReceived

SpecClient == InitStore /\ [][NextClient]_vars

---------------------------------------------------------------------------
(* The gateway: both modules have been loaded, nothing is registered, the   *)
(* key holds any text, and a client calls the operations of storage.js and  *)
(* changes the currency and the categories.                                 *)

\* A document whose three fields are a number, a string and null
WrongTypes == [ofOtherType |-> {"currency", "transactions", "categories"}]

\* What the key can hold: nothing, the empty string, a text that is not
\* JSON, and the JSON text of null, of a number, of a string, of an array,
\* of an object with fields of other types and of an earlier state
KeyContents ==
    {NoItem, EmptyText, NotJson,
     [text |-> Null], [text |-> Num(5)], [text |-> Str("abc")], [text |-> Arr(<<>>)],
     [text |-> WrongTypes], save(EarlierState)}

\* Objects, an array, and what is no object: null, a number, a string
GatewayPayloads ==
    {EmptyObject, WrongTypes, [categories |-> <<"Custom">>],
     Arr(<<>>), Null, Num(5), Str("abc")}

InitGateway ==
    /\ state = InitialState
    /\ defaultCategories = DefaultCategoryNames
    /\ aliased = FALSE
    /\ subscribers = <<>>
    /\ storage \in KeyContents
    /\ nextId = 1
    /\ pc = "run"
    /\ atLoad = NoItem
    /\ last = [op |-> "load", arg |-> Null, ret |-> "undefined"]
    /\ calls = <<>>
    /\ shared = {}
    /\ got = Nothing
    /\ quotaExceeded = FALSE

\* The quota of the origin is used up, or room is made again
quotaChanges ==
    /\ pc = "run"
    /\ quotaExceeded' = ~quotaExceeded
    /\ UNCHANGED <<state, defaultCategories, aliased, subscribers, storage, nextId, pc, atLoad,
                   last, calls, shared, got>>

NextGateway ==
    \/ storageInit
    \/ \E importedData \in GatewayPayloads : importData(importedData)
    \/ clearAll
    \/ \E code \in CurrencyInputs : setCurrency(code)
    \/ \E name \in StoreCategoryInputs : addCategory(name)
    \/ \E view \in ViewInputs : setView(view)
    \/ \E id \in IdsHeld : openModal("editTransaction", id)
    \/ closeModal
    \/ \E callback \in Callbacks : Len(subscribers) < MaxSubs /\ subscribe(callback)
    \/ quotaChanges

SpecGateway == InitGateway /\ [][NextGateway]_vars

---------------------------------------------------------------------------
(* The ledger: state.js has been loaded, the Store holds no transaction,    *)
(* and a client adds, updates and deletes transactions with records of its  *)
(* own making, some of which carry an id.                                   *)

LedgerTransactionInputs ==
    {[amount |-> Str("40"), type |-> "expense", category |-> "Pets"],
     [id |-> 1, amount |-> Num(5), type |-> "income", category |-> "Salary"]}

LedgerUpdateInputs == {[amount |-> Num(0), category |-> "Salary"], [id |-> 2]}

\* The ids of the transactions held, and with them one no transaction has
LedgerIdInputs == IdsHeld \cup {MaxAdds + 1}

NextLedger ==
    \/ \E t \in LedgerTransactionInputs : nextId <= MaxAdds /\ addTransaction(t)
    \/ \E id \in LedgerIdInputs, updates \in LedgerUpdateInputs : updateTransaction(id, updates)
    \/ \E id \in LedgerIdInputs : deleteTransaction(id)

SpecLedger == InitStore /\ [][NextLedger]_vars

---------------------------------------------------------------------------
(* The pages: app.js runs its startup and then renders a page on every      *)
(* change of the location hash; the page templates have been fetched.       *)

\* The manager renderPage initialises for a view (app.js:76-87); the settings
\* page has none. A callback a manager registers is named by its manager:
\* charts.js:210, transactions.js:232, categories.js:114
ManagerOf ==
    [dashboard |-> "ChartsManager",
     transactions |-> "TransactionsManager",
     categories |-> "CategoriesManager"]

\* What location.hash.slice(2) can be: a view, or anything else
HashInputs == Views \cup {"reports"}

\* app.js:197-210 handleHashChange, with the renderPage (app.js:49-94) it
\* calls: setView of the view of the hash ('dashboard' for any other hash)
\* notifies the registered callbacks, then the init of the view's manager
\* calls State.subscribe with a new callback, which is called at once
handleHashChange(hash) ==
    LET view == IF hash \in Views THEN hash ELSE "dashboard"
        s == [state EXCEPT !.currentView = view]
        set == notify(subscribers, s, storage)
        rendered ==
            IF view \in DOMAIN ManagerOf
            THEN Invoke(ManagerOf[view], s,
                        [set EXCEPT !.subs = Append(set.subs, ManagerOf[view])])
            ELSE set
    IN  /\ pc = "run"
        /\ state' = s
        /\ storage' = rendered.storage
        /\ calls' = rendered.calls
        /\ subscribers' = rendered.subs
        /\ Called("handleHashChange", hash, "undefined")
        /\ UNCHANGED <<defaultCategories, aliased, nextId, pc, shared>>

NextPages ==
    \/ subscribeUpdateView
    \/ subscribePersist
    \/ initApp
    \/ \E hash \in HashInputs :
            Len(subscribers) < MaxRegistered /\ handleHashChange(hash)

SpecPages == Init /\ [][NextPages]_vars

---------------------------------------------------------------------------
(* The spending chart: charts.js has been loaded after the Store; the user  *)
(* records transactions one after the other and the dashboard draws the     *)
(* chart of the current month's expenses by category.                       *)

\* charts.js:57-60: the number of categories the chart shows by name
TopCount == 7

\* charts.js:44 new Date().toISOString().slice(0, 7), by the clock of
\* getTodayISO
currentMonth == "2026-11"

\* The first seven characters of the dates of the model
Slice7(date) ==
    CASE date = "2026-11-01" -> "2026-11"
      [] date = "2026-11-20" -> "2026-11"
      [] date = "2026-10-31" -> "2026-10"
      [] date = "2025-01-05" -> "2025-01"
      [] OTHER -> ""

\* String.prototype.startsWith for a date and a month of seven characters
StartsWith(date, month) == Slice7(date) = month

\* charts.js:48 the filter: the expenses of the current month
IsCurrentExpense(t) ==
    /\ Has(t, "type") /\ t.type = "expense"
    /\ StartsWith(t.date, currentMonth)

\* charts.js:50 totals[t.category] = (totals[t.category] || 0) + t.amount,
\* for an amount that is a number. The object totals is the sequence of its
\* entries in the order of their insertion (the order Object.entries gives
\* for names that are not integers); an assignment to a name it has keeps
\* the entry's place.
Assign(totals, category, amount) ==
    IF \E i \in 1..Len(totals) : totals[i].category = category
    THEN LET i == CHOOSE i \in 1..Len(totals) : totals[i].category = category
         IN  [totals EXCEPT ![i].amount = amount]
    ELSE Append(totals, [category |-> category, amount |-> amount])

\* totals[category] || 0
AmountOf(totals, category) ==
    IF \E i \in 1..Len(totals) : totals[i].category = category
    THEN LET i == CHOOSE i \in 1..Len(totals) : totals[i].category = category
         IN  totals[i].amount
    ELSE 0

\* charts.js:47-51 the forEach over the filtered transactions
RECURSIVE TotalsFrom(_, _, _)
TotalsFrom(i, txs, totals) ==
    IF i > Len(txs) THEN totals
    ELSE TotalsFrom(i + 1, txs,
            IF IsCurrentExpense(txs[i])
            THEN Assign(totals, txs[i].category,
                        AmountOf(totals, txs[i].category) + txs[i].amount.v)
            ELSE totals)

\* charts.js:54-55 sort(([,a], [,b]) => b - a): descending by amount, the
\* entries of equal amount in the order they had (the sort is stable)
RECURSIVE SortDescending(_)
SortDescending(entries) ==
    IF entries = <<>> THEN <<>>
    ELSE LET first == CHOOSE i \in 1..Len(entries) :
                        /\ \A j \in 1..Len(entries) : entries[j].amount <= entries[i].amount
                        /\ \A j \in 1..(i - 1) : entries[j].amount < entries[i].amount
             rest == [j \in 1..(Len(entries) - 1) |->
                        IF j < first THEN entries[j] ELSE entries[j + 1]]
         IN  <<entries[first]>> \o SortDescending(rest)

\* reduce((sum, [,amt]) => sum + amt, 0)
RECURSIVE SumOfAmounts(_)
SumOfAmounts(entries) ==
    IF entries = <<>> THEN 0
    ELSE entries[1].amount + SumOfAmounts(Tail(entries))

\* charts.js:59-64: the first seven entries, and the sum of the others under
\* the name 'Other' when it is positive
WithOther(sorted) ==
    LET top == SubSeq(sorted, 1, TopCount)
        otherAmount == SumOfAmounts(SubSeq(sorted, TopCount + 1, Len(sorted)))
    IN  IF otherAmount > 0 THEN Assign(top, "Other", otherAmount) ELSE top

\* charts.js:43-65
getCurrentMonthCategoryTotals(transactions) ==
    LET sorted == SortDescending(TotalsFrom(1, transactions, <<>>))
    IN  IF Len(sorted) <= TopCount THEN sorted ELSE WithOther(sorted)

\* charts.js:69-73 renderSpendingChart with a canvas: the totals it draws
renderSpendingChart ==
    /\ pc = "run"
    /\ calls' = <<>>
    /\ last' = [op |-> "renderSpendingChart",
                arg |-> getTransactions(state).value,
                ret |-> getCurrentMonthCategoryTotals(getTransactions(state).value)]
    /\ UNCHANGED <<state, defaultCategories, aliased, subscribers, storage, nextId,
                   pc, atLoad, shared, got, quotaExceeded>>

\* The categories of the expenses the user records, by the place of the
\* transaction in the list
ChartCategories ==
    <<"Rent", "Fuel", "Groceries", "Transport", "Utilities", "Internet", "Phone",
      "Shopping", "Healthcare", "Education">>

\* What the user records as the n-th transaction: an expense of 1 or of 2 in
\* the n-th category or an expense of 3 in a category named 'Other', dated
\* today; the first can also be an income and the second an expense of the
\* month before
ChartInputs(n) ==
    {[amount |-> Num(1), type |-> "expense", category |-> ChartCategories[n]],
     [amount |-> Num(3), type |-> "expense", category |-> "Other"]}
    \cup (IF n = 1
          THEN {[amount |-> Num(5), type |-> "income", category |-> "Salary"]}
          ELSE {})
    \cup (IF n = 2
          THEN {[amount |-> Num(4), type |-> "expense", category |-> "Fuel",
                 date |-> "2026-10-31"]}
          ELSE {[amount |-> Num(2), type |-> "expense", category |-> ChartCategories[n],
                 date |-> "2026-11-20"]})

NextCharts ==
    \/ nextId <= MaxCharted /\ \E t \in ChartInputs(nextId) : addTransaction(t)
    \/ renderSpendingChart

SpecCharts == InitStore /\ [][NextCharts]_vars

---------------------------------------------------------------------------
(* The fan-out: state.js has been loaded; a client registers callbacks,     *)
(* one of which calls the unsubscribe function of another, calls the        *)
(* unsubscribe functions it was returned, and changes the currency and the  *)
(* categories.                                                              *)

FanOutCallbacks == {"updateView", "keeps", "unsubscriber"}

NextFanOut ==
    \/ \E callback \in FanOutCallbacks :
            Len(subscribers) < MaxFanOut /\ subscribe(callback)
    \/ \E callback \in Range(subscribers) : unsubscribe(callback)
    \/ \E code \in CurrencyInputs : setCurrency(code)
    \/ \E name \in StoreCategoryInputs : addCategory(name)

SpecFanOut == InitStore /\ [][NextFanOut]_vars

---------------------------------------------------------------------------
(* Properties *)

\* The names state.js:24-44 lists
BuiltIn == Range(DefaultCategoryNames)

\* The three persisted fields of a state
Persisted(s) ==
    [currency |-> s.currency, transactions |-> s.transactions, categories |-> s.categories]

\* The Store operations that call notify()
NotifyingOps ==
    {"init", "setCurrency", "addTransaction", "updateTransaction", "deleteTransaction",
     "addCategory", "removeCategory", "setView", "openModal", "closeModal"}

\* The calls that run State.init
InitOps == {"init", "Storage.init", "importData", "importData of exportData", "clearAll"}

\* Every callback of subs called once, in order, each with the state s
EachOnceInOrder(subs, s) == [i \in 1..Len(subs) |-> [cb |-> subs[i], seen |-> s]]

\* C1: in the startup of app.js, a document an earlier session stored is not
\* overwritten before Storage.init() has loaded it, and when Storage.init()
\* has returned the Store holds that document's currency, transactions and
\* categories.
C1_StartupLoadsStoredDocument ==
    atLoad # NoItem =>
        /\ pc \in {"subscribe updateView", "subscribe persist", "initApp"} =>
                storage = atLoad
        /\ (pc = "run" /\ last.op = "Storage.init") =>
                Persisted(state) = JsonParse(atLoad)

\* C2: removeCategory of a built-in default name returns false, leaves the
\* categories (and all the state) unchanged and invokes no subscriber, in
\* every state the Store can be in.
C2_DefaultsAreNeverRemoved ==
    [][(last'.op = "removeCategory" /\ Trim(last'.arg) \in BuiltIn) =>
            /\ last'.ret = "false"
            /\ state' = state
            /\ calls' = <<>>]_vars

C2_Witness ==
    /\ last.op = "removeCategory"
    /\ last.arg = "Salary"
    /\ last.ret = "false"
    /\ "Salary" \notin Range(state.categories)
    /\ ~IsUsed(state.transactions, "Salary")
    /\ Len(subscribers) > 0

\* C3: for a user-defined category c of the Store, removeCategory(c) returns
\* false and changes nothing while a transaction has category c, and returns
\* true and removes c once no transaction has it.
C3_UserCategoryRemovableWhenUnused ==
    [][(/\ last'.op = "removeCategory"
        /\ Trim(last'.arg) \notin BuiltIn
        /\ Trim(last'.arg) \in Range(state.categories)) =>
            IF IsUsed(state.transactions, Trim(last'.arg))
            THEN last'.ret = "false" /\ state' = state
            ELSE last'.ret = "true" /\ Trim(last'.arg) \notin Range(state'.categories)]_vars

\* C4: the names the Store treats as default categories are the 19 built-in
\* names in every reachable state.
C4_DefaultSetIsFixed == defaultCategories = DefaultCategoryNames

\* C5: after every call of init the categories are the 19 built-in names when
\* the payload has no categories array or an empty one, and the payload's
\* categories when that array is not empty.
C5_InitCategories ==
    last.op \in InitOps =>
        state.categories =
            IF Len(InitCategories(last.arg)) = 0 THEN DefaultCategoryNames
            ELSE InitCategories(last.arg)

\* C6 as claimed: from every reachable state, importing the parsed result of
\* exportData() returns true and leaves transactions, categories and currency
\* as they were.
C6_RoundTripEveryState ==
    [][last'.op = "importData of exportData" =>
            /\ last'.ret = "true"
            /\ Persisted(state') = Persisted(state)]_vars

\* C6 as amended: from every reachable state whose categories list is not
\* empty and whose transactions JSON writes unchanged (no NaN amount),
\* importing the parsed result of exportData() returns true and leaves
\* transactions, categories and currency as they were.
C6_RoundTrip ==
    [][(/\ last'.op = "importData of exportData"
        /\ state.categories # <<>>
        /\ JsonTxs(state.transactions) = state.transactions) =>
            /\ last'.ret = "true"
            /\ Persisted(state') = Persisted(state)]_vars

C6_Witness ==
    /\ last.op = "importData of exportData"
    /\ last.ret = "true"
    /\ state.currency = "USD"
    /\ Len(state.transactions) = 2
    /\ "Pets" \in Range(state.categories)
    /\ Persisted(state) = Persisted(last.arg)

\* C7: with Storage.persist registered, when a Store operation that notifies
\* has returned, the document under the key is the JSON document of
\* {currency, transactions, categories} of the Store's state.
C7_PersistFollowsStore ==
    (/\ "persist" \in Range(subscribers)
     /\ last.op \in NotifyingOps
     /\ calls # <<>>) =>
        storage = JsonStringify(Persisted(state))

C7_Witness ==
    /\ "persist" \in Range(subscribers)
    /\ last.op = "updateTransaction"
    /\ calls # <<>>
    /\ state.currency = "USD"
    /\ JsonParse(storage).transactions # <<>>
    /\ "Pets" \in Range(JsonParse(storage).categories)

\* C8: when clearAll() has returned the key holds no document.
C8_ClearAllLeavesNoDocument == last.op = "clearAll" => storage = NoItem

\* C9: when a mutating operation of the Store takes effect, every callback
\* registered at that moment is invoked exactly once, in the order of
\* registration, before the operation returns, each with the state as it is
\* after the mutation.
C9_NotifyEachOnceInOrder ==
    [][(last'.op \in NotifyingOps /\ state' # state) =>
            calls' = EachOnceInOrder(subscribers, state')]_vars

C9_Witness ==
    /\ last.op = "addCategory"
    /\ Len(subscribers) = 2
    /\ subscribers[1] # subscribers[2]
    /\ "Pets" \in Range(state.categories)
    /\ calls = EachOnceInOrder(subscribers, state)

\* C10: subscribe(f) invokes f, and nothing else, exactly once with the
\* current state before it returns; f is invoked again only by an operation
\* that notifies.
C10_ReplayOnSubscribe ==
    /\ last.op = "subscribe" =>
            /\ calls = <<[cb |-> last.arg, seen |-> state]>>
            /\ subscribers[Len(subscribers)] = last.arg
    /\ calls # <<>> => last.op \in NotifyingOps \cup {"subscribe"}

C10_Witness ==
    /\ last.op = "subscribe"
    /\ Len(subscribers) = 2
    /\ subscribers[1] = last.arg
    /\ state.transactions # <<>>
    /\ calls = <<[cb |-> last.arg, seen |-> state]>>

\* What a Store operation with a valid argument leaves in the state
EffectKept(op, arg, s) ==
    CASE op = "setCurrency" -> s.currency = ToUpperCase(arg.v)
      [] op = "addCategory" -> Trim(arg) \in Range(s.categories)
      [] op = "init" -> Persisted(s) = Persisted(InitState(arg, defaultCategories))
      [] OTHER -> TRUE

\* C11: when a registered subscriber throws while a mutation notifies, every
\* subscriber registered after it is still invoked for that mutation (each
\* registered subscriber is, once, with the new state), the effect of the
\* mutation on the state is kept, and the mutating operation does not throw.
C11_ThrowingSubscriberIsIsolated ==
    [][(/\ last'.op \in NotifyingOps
        /\ calls' # <<>>
        /\ \E i \in 1..Len(subscribers) : Throws(subscribers[i])) =>
            /\ Len(calls') = Len(subscribers)
            /\ \A i, j \in 1..Len(subscribers) :
                    (i < j /\ Throws(subscribers[i])) =>
                        calls'[j] = [cb |-> subscribers[j], seen |-> state']
            /\ EffectKept(last'.op, last'.arg, state')
            /\ last'.ret # "throws"]_vars

C11_Witness ==
    /\ last.op = "setCurrency"
    /\ last.ret = "undefined"
    /\ subscribers = <<"throws", "keeps">>
    /\ state.currency = "USD"
    /\ calls = <<[cb |-> "throws", seen |-> state], [cb |-> "keeps", seen |-> state]>>

\* C12: nothing but the Store changes its transactions, categories or
\* currency: when a callback changes the object it was called with, or the
\* caller of init or importData changes an array of the payload it passed,
\* getState() returns what it returned before.
C12_OnlyTheStoreChangesItsState ==
    [][last'.op \in {"mutatePayload", "mutateReceived"} =>
            getState(state') = getState(state)]_vars

\* C13: what getState(), getTransactions() and getCategories() return shares
\* nothing with the Store: when the caller changes the value it was returned,
\* the state of the Store and what the getters return next stay as they were.
C13_GettersReturnCopies ==
    [][last'.op = "mutateReturned" =>
            /\ state' = state
            /\ getState(state') = getState(state)
            /\ getTransactions(state').value = getTransactions(state).value
            /\ getCategories(state').value = getCategories(state).value]_vars

C13_Witness ==
    /\ last.op = "mutateReturned"
    /\ last.arg = "getTransactions"
    /\ got.from = "changed"
    /\ state.transactions = <<EarlierTx>>

\* C14: in every reachable state, whatever init and importData were given
\* and whatever setCurrency was called with, the currency of the Store is a
\* string of length at least 3 that is its own upper-cased form.
C14_CurrencyIsUpperCaseCode ==
    /\ Len(state.currency) >= 3
    /\ ToUpperCase(state.currency) = state.currency

\* The ids of the transactions txs, in their order
Ids(txs) == [i \in 1..Len(txs) |-> txs[i].id]

\* C15: from a Store with no transactions, after any addTransaction,
\* updateTransaction and deleteTransaction calls with any argument records,
\* also records with an id of their own, no two transactions of the Store
\* have the same id (generateId returning a new value each time).
C15_TransactionIdsAreUnique ==
    \A i, j \in 1..Len(state.transactions) :
        i # j => state.transactions[i].id # state.transactions[j].id

\* C16: updateTransaction(id, updates) changes no identity, whatever updates
\* is: the transaction that had id still has it, and the ids of the Store
\* are the same as before.
C16_UpdateKeepsIds ==
    [][last'.op = "updateTransaction" => Ids(state'.transactions) = Ids(state.transactions)]_vars

\* C17: in every reachable state the categories of the Store hold no string
\* twice, whatever init and importData were given and whatever names
\* addCategory and removeCategory.
C17_CategoriesAreUnique ==
    \A i, j \in 1..Len(state.categories) :
        i # j => state.categories[i] # state.categories[j]

\* C18: deleteTransaction(id) with an id no transaction has leaves the
\* transactions as they are in length and contents, leaves every other field
\* of the state as it is, and still invokes every registered subscriber once.
C18_DeleteOfMissingIdStillNotifies ==
    [][(last'.op = "deleteTransaction" /\ last'.arg \notin IdsHeld) =>
            /\ state' = state
            /\ calls' = EachOnceInOrder(subscribers, state)]_vars

C18_Witness ==
    /\ last.op = "deleteTransaction"
    /\ last.arg \notin IdsHeld
    /\ Len(state.transactions) = 1
    /\ subscribers = <<"persist", "updateView">>
    /\ Len(calls) = 2

\* setCurrency(arg) with a non-string or a string shorter than 3
BadCurrency(arg) == ~(arg.t = "string" /\ Len(arg.v) >= 3)

\* C19 as claimed: a mutation with invalid arguments is silently ignored:
\* setCurrency with a non-string or a string shorter than 3, setView with a
\* name outside the four views, and updateTransaction and deleteTransaction
\* with an id no transaction has leave the state unchanged, invoke no
\* subscriber and throw nothing.
C19_InvalidArgumentsAreIgnored ==
    [][(\/ last'.op = "setCurrency" /\ BadCurrency(last'.arg)
        \/ last'.op = "setView" /\ last'.arg \notin Views
        \/ last'.op = "updateTransaction" /\ last'.arg[1] \notin IdsHeld
        \/ last'.op = "deleteTransaction" /\ last'.arg \notin IdsHeld) =>
            /\ state' = state
            /\ calls' = <<>>
            /\ last'.ret # "throws"]_vars

\* C19 as amended: setCurrency with a non-string or a string shorter than 3,
\* setView with a name outside the four views, and updateTransaction with an
\* id no transaction has leave the state unchanged, invoke no subscriber and
\* throw nothing (deleteTransaction with such an id notifies, see C18).
C19_InvalidArgumentsAreIgnoredButDelete ==
    [][(\/ last'.op = "setCurrency" /\ BadCurrency(last'.arg)
        \/ last'.op = "setView" /\ last'.arg \notin Views
        \/ last'.op = "updateTransaction" /\ last'.arg[1] \notin IdsHeld) =>
            /\ state' = state
            /\ calls' = <<>>
            /\ last'.ret # "throws"]_vars

C19_Witness ==
    /\ last.op = "updateTransaction"
    /\ last.arg[1] \notin IdsHeld
    /\ Len(state.transactions) = 1
    /\ Len(subscribers) = 2
    /\ calls = <<>>

\* C20: whatever the key holds (nothing, a text that is not JSON, the JSON
\* text of null, a number, a string, an array or an object with fields of
\* other types), Storage.init() returns without throwing and leaves the Store
\* with an array of transactions, a non-empty array of categories and a
\* string as currency.
C20_StorageInitNeverThrows ==
    last.op = "Storage.init" =>
        /\ last.ret # "throws"
        /\ Len(state.transactions) >= 0
        /\ Len(state.categories) > 0
        /\ Len(state.currency) >= 0

\* What is not an object: null, a number, a string
NonObjects == {Null, Num(5), Str("abc")}

C22_EphemeralFieldsAreNotPersisted ==
    [][/\ (storage' # storage /\ storage' # NoItem) =>
                DOMAIN JsonParse(storage') = {"currency", "transactions", "categories"}
       /\ (last'.op \in InitOps /\ last'.ret # "false") =>
                /\ state'.currentView = "dashboard"
                /\ state'.modalOpen = Null
                /\ state'.editingTransactionId = Null]_vars

\* C23: when the write fails while Storage.persist runs as a subscriber of
\* a mutation, the effect of the mutation stays in the state of the Store, the
\* stored document is as it was, every subscriber (those after persist
\* included) is invoked once with the new state, and the mutation does not
\* throw.
C23_FailedWriteDegradesToMemory ==
    [][(/\ quotaExceeded
        /\ "persist" \in Range(subscribers)
        /\ last'.op \in NotifyingOps
        /\ calls' # <<>>) =>
            /\ storage' = storage
            /\ calls' = EachOnceInOrder(subscribers, state')
            /\ EffectKept(last'.op, last'.arg, state')
            /\ last'.ret # "throws"]_vars

C23_Witness ==
    /\ quotaExceeded
    /\ last.op = "setCurrency"
    /\ last.ret = "undefined"
    /\ subscribers = <<"persist", "updateView">>
    /\ calls = EachOnceInOrder(subscribers, state)
    /\ state.currency = "USD"
    /\ storage = save([state EXCEPT !.currency = "NGN"])

\* The callbacks a step invoked, in the order of their invocation
Invoked(cs) == [i \in 1..Len(cs) |-> cs[i].cb]

\* C24: calling the unsubscribe function subscribe(f) returned removes f and
\* leaves the other registered callbacks in their order, and every mutation
\* that changes the state invokes exactly the callbacks registered when it
\* was called, in their registration order: f is not invoked by a mutation
\* after its unsubscribe function was called, every other callback still is.
C24_UnsubscribeRemovesExactlyItsCallback ==
    [][/\ last'.op = "unsubscribe" =>
            /\ last'.arg \notin Range(subscribers')
            /\ calls' = <<>>
            /\ \E kept \in SUBSET (1..Len(subscribers)) :
                    /\ kept = {i \in 1..Len(subscribers) : subscribers[i] # last'.arg}
                    /\ Len(subscribers') = Cardinality(kept)
                    /\ \A i \in kept :
                            subscribers'[Cardinality({j \in kept : j <= i})] = subscribers[i]
       /\ (last'.op \in NotifyingOps /\ state' # state) =>
            Invoked(calls') = subscribers]_vars

C24_Witness ==
    /\ last.op = "unsubscribe"
    /\ last.arg = "keeps"
    /\ subscribers = <<"unsubscriber", "updateView">>
    /\ state.currency = "USD"

\* C26: once the unsubscribe function of a callback has returned, the
\* callback is not invoked again, also when a callback called it while the
\* subscribers of a mutation are being notified: in no fan-out is the
\* unsubscribed callback invoked after the callback that unsubscribed it.
C26_UnsubscribedInFanOutIsNotInvoked ==
    \A i, j \in 1..Len(calls) :
        (i < j /\ calls[i].cb = "unsubscriber") => calls[j].cb # Unsubscribed

\* C27: when the callback passed to subscribe throws in its immediate first
\* invocation, subscribe does not throw to its caller and returns the
\* unsubscribe function: every call of subscribe returns it.
C27_SubscribeIsolatesFirstInvocation ==
    last.op = "subscribe" => last.ret = "unsubscribe"

\* C25: over any sequence of navigations between the views, each of
\* ChartsManager, TransactionsManager and CategoriesManager has at most one
\* callback registered with the Store, however often its page is rendered.
C25_OneCallbackPerManager ==
    \A view \in DOMAIN ManagerOf :
        Cardinality({i \in 1..Len(subscribers) : subscribers[i] = ManagerOf[view]}) <= 1

\* The expenses of the current month among txs
CurrentExpenses(txs) == SelectSeq(txs, IsCurrentExpense)

RECURSIVE TotalOfExpenses(_)
TotalOfExpenses(txs) ==
    IF txs = <<>> THEN 0 ELSE txs[1].amount.v + TotalOfExpenses(Tail(txs))

\* C28: for every list of transactions whose amounts are non-negative
\* integers, the values of the object getCurrentMonthCategoryTotals returns
\* sum to the total of the amounts of the current month's expenses, whatever
\* the category names ('Other' included) and whether the expenses have at
\* most seven categories or more.
C28_CategoryTotalsSumToMonthTotal ==
    last.op = "renderSpendingChart" =>
        SumOfAmounts(last.ret) = TotalOfExpenses(CurrentExpenses(last.arg))

====
